---- MODULE Spec2Model ----
(***************************************************************************)
(* Real-time quiz session coordinator (yaelkurz/quiz-app).                 *)
(*                                                                         *)
(* The model covers the Quiz State held in the State Store (Redis), the    *)
(* message handler registry (app/api/handlers.py), and the per-connection  *)
(* listener tasks of WebSocketManager (app/api/models.py) raced by main_ws *)
(* (app/api/main.py).                                                      *)
(*                                                                         *)
(* handlers.py and api/models.py use members of QuizData and QuizState     *)
(* that cache/models.py and cache/schemas.py do not define (next_question, *)
(* end_quiz, get_results, timeout_question, questions,                     *)
(* current_question_end_timestamp, get_question_by_index, add_to_cache).   *)
(* Those members are modelled from the specification's section 4.1 and     *)
(* are marked where they are defined; everything else follows the source.  *)
(***************************************************************************)
EXTENDS Integers, Sequences, FiniteSets, TLC

\* ------------------------------------------------------------------ bounds
\* Largest number of questions of the session's quiz.
MaxQuestions == 2
\* Last value of the server clock (seconds) the model explores.
MaxTime == 2
\* Number of client messages all clients together may send.
MaxMsgs == 3
\* Number of connections opened to the session.
MaxConns == 2

\* ------------------------------------------------------------- identifiers
SessionId == "s-1"
QuizId == "q-1"
OtherQuizId == "q-other"
\* DbQuestion.quiz_id is Optional and defaults to None.
NoQuizId == "None"

\* WsConnectionType (app/api/schemas.py).
MODERATOR == "moderator"
PARTICIPANT == "participant"
UNKNOWN == "unknown"
WsConnectionType == {MODERATOR, PARTICIPANT, UNKNOWN}

\* The states of QuizState that handlers.py and api/models.py name.
WAITING_TO_START == "waiting_to_start"
ACTIVE == "active"
QUESTION_TIMEDOUT == "question_timedout"
SHOW_RESULTS == "show_results"
ENDED == "ended"
QuizStates == {WAITING_TO_START, ACTIVE, QUESTION_TIMEDOUT, SHOW_RESULTS, ENDED}

\* Optional values: None is the empty tuple, a present value a 1-tuple.
None == << >>
Some(x) == << x >>
IsNone(o) == o = << >>
Get(o) == o[1]

\* ---------------------------------------------------------------- errors
\* Errors (app/api/errors.py): each kind with its status and close code.
MISSING_USER_ID_HEADER == [kind |-> "MissingIdentity", status_code |-> 400, error_code |-> 4001]
SESSION_NOT_FOUND == [kind |-> "SessionNotFound", status_code |-> 404, error_code |-> 4040]
USER_FORBIDDEN == [kind |-> "Forbidden", status_code |-> 403, error_code |-> 4030]
INVALID_MESSAGE_TYPE == [kind |-> "InvalidMessageType", status_code |-> 400, error_code |-> 4002]
SESSION_CLOSED_FOR_NEW_PARTICIPANTS ==
    [kind |-> "SessionClosedForNewParticipants", status_code |-> 400, error_code |-> 4003]
ServerError == [kind |-> "ServerError", status_code |-> 500, error_code |-> 5000]
\* UserLeftException and an exception of the interpreter (AttributeError,
\* IndexError, TypeError) carry no status.
UserLeftException == [kind |-> "UserLeft", status_code |-> 0, error_code |-> 0]
PythonError == [kind |-> "PythonError", status_code |-> 0, error_code |-> 0]
NoError == [kind |-> "none", status_code |-> 0, error_code |-> 0]

\* ------------------------------------------------------------- questions
\* The two answer options of every question: option 1 wrong, option 2 right
\* (answer ids are unique within a question).
AnswerOptionsOf(n, quiz) ==
    << [answer_id |-> 1, correct_answer |-> FALSE, question_id |-> n, quiz_id |-> quiz],
       [answer_id |-> 2, correct_answer |-> TRUE, question_id |-> n, quiz_id |-> quiz] >>

\* Question number n of the quiz as the database returns it; questions differ
\* in their seconds_to_answer.
DbQuestion(n) ==
    [question_id |-> n, question_number |-> n, points |-> 10, seconds_to_answer |-> n,
     answers |-> AnswerOptionsOf(n, QuizId), quiz_id |-> QuizId]

\* QuestionsRepository.get_quiz_questions: the quiz's questions by number.
get_quiz_questions(nq) == [n \in 1..nq |-> DbQuestion(n)]

\* QuestionsRepository.get_question_by_index: the question with that number,
\* None when the quiz has none.
get_question_by_index(nq, index) ==
    IF index \in 1..nq THEN Some(DbQuestion(index)) ELSE None

\* ------------------------------------------------------------- QuizData
\* The Quiz State a moderator's first connection puts in the Store.
InitialQuizData ==
    [session_id |-> SessionId, quiz_state |-> WAITING_TO_START, quiz_id |-> QuizId,
     current_question_number |-> 0, current_question |-> None,
     current_question_end_timestamp |-> 0]

\* The deadline of the question just loaded: now + its seconds_to_answer.
QuestionDeadline(question, now) ==
    IF IsNone(question) THEN now ELSE now + Get(question).seconds_to_answer

\* start_quiz with the assignment of current_question_number left out.
start_quiz_keeps_number(q, nq, now) ==
    LET question == get_question_by_index(nq, 1)
    IN  [q EXCEPT !.quiz_state = ACTIVE,
                  !.current_question = question,
                  !.current_question_end_timestamp = QuestionDeadline(question, now)]

\* QuizData.start_quiz: no guard on the state it is called in.
start_quiz(q, nq, now) ==
    LET question == get_question_by_index(nq, 1)
    IN  [q EXCEPT !.quiz_state = ACTIVE,
                  !.current_question_number = 1,
                  !.current_question = question,
                  !.current_question_end_timestamp = QuestionDeadline(question, now)]

\* QuizData.next_question: from Active or QuestionTimedOut, not on the last
\* question.
next_question(q, nq, now) ==
    IF q.quiz_state \in {ACTIVE, QUESTION_TIMEDOUT} /\ q.current_question_number < nq
    THEN LET question == get_question_by_index(nq, q.current_question_number + 1)
         IN  [q EXCEPT !.quiz_state = ACTIVE,
                       !.current_question_number = q.current_question_number + 1,
                       !.current_question = question,
                       !.current_question_end_timestamp = QuestionDeadline(question, now)]
    ELSE q

\* QuizData.get_results: from Active or QuestionTimedOut, on the last question.
get_results(q, nq) ==
    IF q.quiz_state \in {ACTIVE, QUESTION_TIMEDOUT} /\ q.current_question_number = nq
    THEN [q EXCEPT !.quiz_state = SHOW_RESULTS]
    ELSE q

\* QuizData.end_quiz: from any state.
end_quiz(q) == [q EXCEPT !.quiz_state = ENDED]

\* QuizData.timeout_question: the caller checks that the state is Active.
timeout_question(q) == [q EXCEPT !.quiz_state = QUESTION_TIMEDOUT]

\* -------------------------------------------------------------- messages
\* An inbound message: {"type", "choice": {"option_type", "option",
\* "question-id", "answer-id", "quiz-id"}}; has_choice is FALSE for a message
\* without the "choice" key. question_id 0 and answer_id 0 are ids that no
\* question or answer option of the quiz has.
NoChoice(type) ==
    [type |-> type, has_choice |-> FALSE, option_type |-> "none", option |-> "none",
     question_id |-> 0, answer_id |-> 0, quiz_id |-> NoQuizId]
Cmd(type, option) ==
    [type |-> type, has_choice |-> TRUE, option_type |-> "cmd", option |-> option,
     question_id |-> 0, answer_id |-> 0, quiz_id |-> NoQuizId]
Answer(type, question, answer, quiz) ==
    [type |-> type, has_choice |-> TRUE, option_type |-> "answer", option |-> "answer",
     question_id |-> question, answer_id |-> answer, quiz_id |-> quiz]

MessageTypes == {"moderator-choice", "participant-choice", "timeout", "unregistered"}
Options == {"Start Quiz", "End Quiz", "Next Question", "Go To Results", "Leave Quiz"}
ModeratorCmds == {Cmd("moderator-choice", o) : o \in Options}
ParticipantCmds == {Cmd("participant-choice", o) : o \in {"Leave Quiz", "Start Quiz"}}
AnswerMsgs(type) ==
    {Answer(type, n, a, quiz) : n \in 0..MaxQuestions, a \in 0..2, quiz \in {QuizId, OtherQuizId}}
TimeoutMsg == NoChoice("timeout")
StartQuizMsg == Cmd("moderator-choice", "Start Quiz")
NextQuestionMsg == Cmd("moderator-choice", "Next Question")
GoToResultsMsg == Cmd("moderator-choice", "Go To Results")
EndQuizMsg == Cmd("moderator-choice", "End Quiz")
Messages ==
    ModeratorCmds \cup ParticipantCmds \cup AnswerMsgs("participant-choice")
        \cup {Answer("moderator-choice", 1, 2, QuizId)}
        \cup {NoChoice(t) : t \in MessageTypes}

\* ------------------------------------------------------------- handlers
\* What a handler hands back: the exception it raised (NoError: it returned),
\* the Quiz State, the moderator event and the row it asked the database to
\* insert.
Returned(q, event, row) ==
    [exc |-> NoError, quiz_data |-> q, moderator_event |-> event, insert |-> row]
Raised(e, q) ==
    [exc |-> e, quiz_data |-> q, moderator_event |-> "none", insert |-> None]

\* handle_moderators_choice without the branch for "Next Question".
moderators_choice_without_next(message, q, connection_type, nq, now) ==
    IF connection_type # MODERATOR THEN Raised(USER_FORBIDDEN, q)
    ELSE IF ~message.has_choice THEN Raised(PythonError, q)
    ELSE IF message.option_type # "cmd" THEN Returned(q, "none", None)
    ELSE IF message.option = "Start Quiz" THEN Returned(start_quiz(q, nq, now), "none", None)
    ELSE IF message.option = "End Quiz" THEN Returned(end_quiz(q), "none", None)
    ELSE IF message.option = "Go To Results" THEN Returned(get_results(q, nq), "none", None)
    ELSE Returned(q, "none", None)

\* handle_moderators_choice without the branch for "End Quiz".
moderators_choice_without_end(message, q, connection_type, nq, now) ==
    IF connection_type # MODERATOR THEN Raised(USER_FORBIDDEN, q)
    ELSE IF ~message.has_choice THEN Raised(PythonError, q)
    ELSE IF message.option_type # "cmd" THEN Returned(q, "none", None)
    ELSE IF message.option = "Start Quiz" THEN Returned(start_quiz(q, nq, now), "none", None)
    ELSE IF message.option = "Next Question" THEN Returned(next_question(q, nq, now), "none", None)
    ELSE IF message.option = "Go To Results" THEN Returned(get_results(q, nq), "none", None)
    ELSE Returned(q, "none", None)

\* handle_moderators_choice with "Next Question" calling start_quiz, the call
\* of the branch two above it.
moderators_choice_next_restarts(message, q, connection_type, nq, now) ==
    IF connection_type # MODERATOR THEN Raised(USER_FORBIDDEN, q)
    ELSE IF ~message.has_choice THEN Raised(PythonError, q)
    ELSE IF message.option_type # "cmd" THEN Returned(q, "none", None)
    ELSE IF message.option = "Start Quiz" THEN Returned(start_quiz(q, nq, now), "none", None)
    ELSE IF message.option = "End Quiz" THEN Returned(end_quiz(q), "none", None)
    ELSE IF message.option = "Next Question" THEN Returned(start_quiz(q, nq, now), "none", None)
    ELSE IF message.option = "Go To Results" THEN Returned(get_results(q, nq), "none", None)
    ELSE Returned(q, "none", None)

\* The statements of handle_moderators_choice inside its try block.
moderators_choice_body(message, q, connection_type, nq, now) ==
    IF connection_type # MODERATOR THEN Raised(USER_FORBIDDEN, q)
    ELSE IF ~message.has_choice THEN Raised(PythonError, q)
    ELSE IF message.option_type # "cmd" THEN Returned(q, "none", None)
    ELSE IF message.option = "Start Quiz" THEN Returned(start_quiz(q, nq, now), "none", None)
    ELSE IF message.option = "End Quiz" THEN Returned(end_quiz(q), "none", None)
    ELSE IF message.option = "Next Question" THEN Returned(next_question(q, nq, now), "none", None)
    ELSE IF message.option = "Go To Results" THEN Returned(get_results(q, nq), "none", None)
    ELSE Returned(q, "none", None)

\* except Exception: raise Errors.ServerError.
WrapAll(r) == IF r.exc # NoError THEN Raised(ServerError, r.quiz_data) ELSE r

\* except UserLeftException: raise UserLeftException; except Exception: raise
\* Errors.ServerError.
WrapButUserLeft(r) ==
    IF r.exc \notin {NoError, UserLeftException} THEN Raised(ServerError, r.quiz_data) ELSE r

handle_moderators_choice(message, q, connection_type, user, nq, now) ==
    WrapAll(moderators_choice_body(message, q, connection_type, nq, now))

\* answer_is_correct: "error" stands for the IndexError of [...][0] on a
\* question-id that no question of the quiz has.
answer_is_correct(choice, q, nq) ==
    IF q.quiz_id # choice.quiz_id THEN "false"
    ELSE IF choice.question_id \notin 1..nq THEN "error"
    ELSE LET answers == get_quiz_questions(nq)[choice.question_id].answers
             hits == {i \in 1..Len(answers) : answers[i].answer_id = choice.answer_id}
         IN  IF hits = {} THEN "false"
             ELSE IF answers[CHOOSE i \in hits : TRUE].correct_answer THEN "true" ELSE "false"

\* The UserAnswer row built by handle_participent_choice.
UserAnswer(user, choice, q, now, correct) ==
    [user_id |-> user, question_id |-> choice.question_id, answer_id |-> choice.answer_id,
     timestamp |-> now, session_id |-> q.session_id, quiz_id |-> q.quiz_id,
     points |-> Get(q.current_question).points, is_correct |-> correct]

\* handle_participent_choice with Leave Quiz returning like any other command.
participent_choice_leave_returns(message, q, connection_type, user, nq, now) ==
    IF connection_type # PARTICIPANT THEN Raised(USER_FORBIDDEN, q)
    ELSE IF ~message.has_choice THEN Raised(PythonError, q)
    ELSE IF message.option_type = "answer"
    THEN LET correct == answer_is_correct(message, q, nq)
         IN  IF correct = "error" \/ IsNone(q.current_question)
             THEN Raised(PythonError, q)
             ELSE Returned(q, "answered",
                           Some(UserAnswer(user, message, q, now, correct = "true")))
    ELSE Returned(q, "none", None)

\* The statements of handle_participent_choice inside its try block.
participent_choice_body(message, q, connection_type, user, nq, now) ==
    IF connection_type # PARTICIPANT THEN Raised(USER_FORBIDDEN, q)
    ELSE IF ~message.has_choice THEN Raised(PythonError, q)
    ELSE IF message.option_type = "cmd" /\ message.option = "Leave Quiz"
    THEN Raised(UserLeftException, q)
    ELSE IF message.option_type = "answer"
    THEN LET correct == answer_is_correct(message, q, nq)
         IN  IF correct = "error" \/ IsNone(q.current_question)
             THEN Raised(PythonError, q)
             ELSE Returned(q, "answered",
                           Some(UserAnswer(user, message, q, now, correct = "true")))
    ELSE Returned(q, "none", None)

handle_participent_choice(message, q, connection_type, user, nq, now) ==
    WrapButUserLeft(participent_choice_body(message, q, connection_type, user, nq, now))

\* handle_timeout without the test that the state is Active.
timeout_body_unguarded(q, connection_type) ==
    IF connection_type # MODERATOR THEN Raised(USER_FORBIDDEN, q)
    ELSE Returned(timeout_question(q), "none", None)

\* The statements of handle_timeout inside its try block.
timeout_body(q, connection_type) ==
    IF connection_type # MODERATOR THEN Raised(USER_FORBIDDEN, q)
    ELSE IF q.quiz_state = ACTIVE THEN Returned(timeout_question(q), "none", None)
    ELSE Returned(q, "none", None)

handle_timeout(message, q, connection_type, user, nq, now) ==
    WrapAll(timeout_body(q, connection_type))

\* MESSAGE_TYPES_DATA_FUNCTION_MAPPING, filled by register_message_handler.
RegisteredTypes == {"moderator-choice", "participant-choice", "timeout"}

\* The statements of handle_message inside its try block.
message_body(message, q, connection_type, user, nq, now) ==
    IF message.type \notin RegisteredTypes THEN Raised(INVALID_MESSAGE_TYPE, q)
    ELSE IF message.type = "moderator-choice"
    THEN handle_moderators_choice(message, q, connection_type, user, nq, now)
    ELSE IF message.type = "participant-choice"
    THEN handle_participent_choice(message, q, connection_type, user, nq, now)
    ELSE handle_timeout(message, q, connection_type, user, nq, now)

handle_message(message, q, connection_type, user, nq, now) ==
    WrapAll(message_body(message, q, connection_type, user, nq, now))

\* ----------------------------------------------------------- State Store
\* AnswerOption.model_dump_json keeps every field of an answer option.
\* DbQuestion.model_dump_json followed by DbQuestion.get_from_cache: the
\* question's quiz_id is not written and comes back as the default None.
question_through_cache(question) ==
    IF IsNone(question) THEN None
    ELSE Some([Get(question) EXCEPT !.quiz_id = NoQuizId])

\* QuizData.model_dump_json: the dictionary update_quiz_data stores.
model_dump_json(q) ==
    [session_id |-> q.session_id, quiz_state |-> q.quiz_state, quiz_id |-> q.quiz_id,
     current_question_number |-> q.current_question_number,
     current_question |-> question_through_cache(q.current_question)]

\* The value under the session's key: the dumped dictionary, with the
\* question's deadline beside it.
StoreValue(q) ==
    [json |-> model_dump_json(q),
     current_question_end_timestamp |-> q.current_question_end_timestamp]

\* CacheManager.get_quiz_data on a Store that holds the session's key.
get_quiz_data(value) ==
    [session_id |-> value.json.session_id, quiz_state |-> value.json.quiz_state,
     quiz_id |-> value.json.quiz_id,
     current_question_number |-> value.json.current_question_number,
     current_question |-> value.json.current_question,
     current_question_end_timestamp |-> value.current_question_end_timestamp]

\* CacheManager.update_quiz_data on the value the Store holds: the dump is set
\* under the session's key and True returned, or the Store's exception is
\* logged and False returned (ok: the set went through). The model's
\* connections run with the Store available.
update_quiz_data(value, q, ok) == IF ok THEN Some(StoreValue(q)) ELSE value

\* ---------------------------------------------------------------- payloads
\* DbQuestion.client_model_dump_json: the question without its answers.
question_client_model_dump_json(question) ==
    IF IsNone(question) THEN None
    ELSE LET x == Get(question)
         IN  Some([question_id |-> x.question_id, question_number |-> x.question_number,
                   points |-> x.points, seconds_to_answer |-> x.seconds_to_answer])

\* QuizData.client_model_dump_json: the projection for the client.
client_model_dump_json(q) ==
    [session_id |-> q.session_id, quiz_state |-> q.quiz_state, quiz_id |-> q.quiz_id,
     current_question_number |-> q.current_question_number,
     current_question |-> question_client_model_dump_json(q.current_question)]

\* The participant's menu of get_payload: in Active the current question's
\* answer options, then Leave Quiz.
LeaveQuizOption == [option |-> "Leave Quiz", option_type |-> "cmd"]
participant_menu(q) ==
    IF q.quiz_state = ACTIVE /\ ~IsNone(q.current_question)
    THEN LET answers == Get(q.current_question).answers
         IN  [i \in 1..Len(answers) |->
                 [option_type |-> "answer", answer_id |-> answers[i].answer_id,
                  quiz_id |-> answers[i].quiz_id, question_id |-> answers[i].question_id]]
             \o <<LeaveQuizOption>>
    ELSE <<LeaveQuizOption>>

\* get_active_mod_menu with its two branches exchanged.
get_active_mod_menu_swapped(last_question) ==
    IF last_question THEN <<"Next Question", "End Quiz">> ELSE <<"Go To Results", "End Quiz">>

\* get_active_mod_menu.
get_active_mod_menu(last_question) ==
    IF last_question THEN <<"Go To Results", "End Quiz">> ELSE <<"Next Question", "End Quiz">>

\* get_payload fails (AttributeError, then the missing ErrorBase.details) on an
\* Active Quiz State without a current question.
PayloadFails(q) == q.quiz_state = ACTIVE /\ IsNone(q.current_question)

\* get_payload with the type of the Ended branch that of the others.
get_payload_always_update(q, nq) ==
    [type |-> "update",
     moderator_menu |->
        IF q.quiz_state = WAITING_TO_START THEN <<"Start Quiz", "End Quiz">>
        ELSE IF q.quiz_state \in {ACTIVE, QUESTION_TIMEDOUT}
        THEN get_active_mod_menu(q.current_question_number = nq)
        ELSE <<"End Quiz">>,
     participant_menu |-> participant_menu(q),
     quiz_data |-> model_dump_json(q)]

\* get_payload: the payload's type and the moderator's menu.
get_payload(q, nq) ==
    [type |-> IF q.quiz_state = ENDED THEN "end" ELSE "update",
     moderator_menu |->
        IF q.quiz_state = WAITING_TO_START THEN <<"Start Quiz", "End Quiz">>
        ELSE IF q.quiz_state \in {ACTIVE, QUESTION_TIMEDOUT}
        THEN get_active_mod_menu(q.current_question_number = nq)
        ELSE <<"End Quiz">>,
     participant_menu |-> participant_menu(q),
     quiz_data |-> model_dump_json(q)]

\* WebSocketManager.dispatch_to_client: what send_json is given for a payload,
\* q being the connection's self.quiz_data; an "update" gets the client's
\* projection under "quiz-state".
dispatch_to_client(payload, q) ==
    [payload |-> payload,
     quiz_state |-> IF payload.type = "update" THEN Some(client_model_dump_json(q)) ELSE None]

\* ------------------------------------------------------------ connections
\* Two connections of the session's moderator (two browser tabs) and two
\* participants. Every connection is served by a worker process of its own, so
\* between a task's read of the Store and its write other connections may
\* act; the tasks of one connection share an event loop and run from one
\* await to the next without interleaving.
Conns == {"m1", "m2", "p1", "p2"}
RoleOf(c) == IF c \in {"m1", "m2"} THEN MODERATOR ELSE PARTICIPANT
UserOf(c) == IF c \in {"m1", "m2"} THEN "u-mod" ELSE IF c = "p1" THEN "u-p1" ELSE "u-p2"
Participants == {c \in Conns : RoleOf(c) = PARTICIPANT}

\* The connections are named in the order they are opened: m2 is the
\* moderator's second connection, p2 the second participant.
OpenedBefore(c) == IF c = "m2" THEN {"m1"} ELSE IF c = "p2" THEN {"p1"} ELSE {}

\* The messages a client sends in the model.
ClientMessages(c) ==
    IF RoleOf(c) = MODERATOR
    THEN ModeratorCmds \cup {NoChoice("unregistered")}
    ELSE {Cmd("participant-choice", "Leave Quiz"), Cmd("moderator-choice", "Next Question"),
          TimeoutMsg}
         \cup {Answer("participant-choice", n, 2, quiz) :
                  n \in 0..MaxQuestions, quiz \in {QuizId, OtherQuizId}}

VARIABLES
    nq,         \* number of questions of the session's quiz
    now,        \* the Store's clock (CacheManager.get_timestamp)
    store,      \* the value under the session's key: None or Some(StoreValue)
    answers,    \* rows of quiz_participants_answers
    db_error,   \* per connection: the error that aborted its database transaction
    sent,       \* client messages received so far
    phase,      \* per connection: "new", "active", "closed", "refused"
    quiz_data,  \* per connection: self.quiz_data
    ws,         \* per connection: the inbound listener
    msg,        \* per connection: the message the inbound listener handles
    timer,      \* per connection: the question timer
    pubsub,     \* per connection: the broadcast listener
    hb,         \* per connection: the heartbeat
    inbox,      \* per connection: payload types published and not yet delivered
    h_in,       \* the registry alone: the call handle_message was given
    h_out,      \* the registry alone: what that call handed back
    h_payload,  \* the registry alone: the payload published after that call
    hs_in,      \* the handshake alone: the headers and path main_ws was given
    hs_out      \* the handshake alone: what main_ws did with them

sysvars == <<now, store, answers, db_error, sent, phase, quiz_data, ws, msg, timer, pubsub, hb, inbox>>
hvars == <<h_in, h_out, h_payload, hs_in, hs_out>>
vars == <<nq, now, store, answers, db_error, sent, phase, quiz_data, ws, msg, timer, pubsub,
          hb, inbox, h_in, h_out, h_payload, hs_in, hs_out>>

NoMessage == NoChoice("none")

\* No handshake has been made yet.
NoHandshake ==
    [user_id |-> Some("none"), role |-> Some("none"), session_id |-> SessionId, store |-> None]
NotOpened ==
    [exc |-> NoError, store |-> None, quiz_data |-> None, phase |-> "new", close_code |-> None,
     initial_payload |-> None, published |-> None, tasks |-> {}]

HInit ==
    /\ h_in = [message |-> NoMessage, quiz_data |-> InitialQuizData,
               connection_type |-> MODERATOR, now |-> 0]
    /\ h_out = Returned(InitialQuizData, "none", None)
    /\ h_payload = [published |-> None, dispatched |-> None, stored |-> FALSE]
    /\ hs_in = NoHandshake
    /\ hs_out = NotOpened

SysInit ==
    /\ now = 0
    /\ store = None
    /\ answers = {}
    /\ db_error = [c \in Conns |-> "none"]
    /\ sent = 0
    /\ phase = [c \in Conns |-> "new"]
    /\ quiz_data = [c \in Conns |-> InitialQuizData]
    /\ ws = [c \in Conns |-> "off"]
    /\ msg = [c \in Conns |-> NoMessage]
    /\ timer = [c \in Conns |-> "off"]
    /\ pubsub = [c \in Conns |-> "off"]
    /\ hb = [c \in Conns |-> "off"]
    /\ inbox = [c \in Conns |-> << >>]

Init == nq \in 0..MaxQuestions /\ SysInit /\ HInit

\* --------------------------------------------------------------- helpers
\* The Quiz State in the Store (the Store holds the session's key).
Stored == get_quiz_data(Get(store))

\* A task of connection c is between its read of the Store and its write:
\* it runs without an await, so no other task of c's event loop runs.
Busy(c) == ws[c] = "handling" \/ timer[c] = "fire"

\* The client's socket still takes a send_json.
SocketOpen(c) == phase[c] = "active"

\* One more notification for a subscribed listener. The listener stops at the
\* first "end" it is given, so nothing queues behind one; a notification only
\* makes the listener re-read the Store, so a run of undelivered "update"
\* notifications is kept as one.
Notified(queue, type) ==
    IF queue # << >> /\ queue[Len(queue)] \in {"end", type} THEN queue
    ELSE Append(queue, type)

\* PubSubManager.add_payload_to_publish_queue and _publish_loop: the payload
\* reaches every connection whose broadcast listener is subscribed.
Published(type) ==
    [d \in Conns |-> IF pubsub[d] = "run" THEN Notified(inbox[d], type) ELSE inbox[d]]

\* The row of quiz_participants_answers for a UserAnswer: its key (the one
\* session's user_id and question_id), answer and correctness.
AnswerRow(r) ==
    [user_id |-> r.user_id, question_id |-> r.question_id,
     answer_id |-> r.answer_id, is_correct |-> r.is_correct]

\* The error the INSERT of the row raises: the database connection's
\* transaction is already aborted (no statement is accepted until a rollback,
\* which the code never issues), the primary key (session_id, user_id,
\* question_id) is taken, or the question is none of the quiz (foreign key).
InsertError(table, r, error) ==
    IF error # "none" THEN "InFailedSqlTransaction"
    ELSE IF \E x \in table : x.user_id = r.user_id /\ x.question_id = r.question_id
    THEN "UniqueViolation"
    ELSE IF r.question_id \notin 1..nq THEN "ForeignKeyViolation"
    ELSE "none"

\* insert_users_answer with the table's primary key left out.
insert_users_answer_without_key(table, row, error) ==
    IF IsNone(row) THEN [table |-> table, error |-> error]
    ELSE LET r == Get(row)
             e == InsertError({}, r, error)
         IN  IF e = "none" THEN [table |-> table \cup {AnswerRow(r)}, error |-> error]
             ELSE [table |-> table, error |-> IF error = "none" THEN e ELSE error]

\* QuizParticipantsAnswersRepository.insert_users_answer: the row is added and
\* committed, or the database's error is logged and dropped, which leaves the
\* connection's transaction aborted. Handed the table and the connection's
\* error so far, it gives the table and the error afterwards.
insert_users_answer(table, row, error) ==
    IF IsNone(row) THEN [table |-> table, error |-> error]
    ELSE LET r == Get(row)
             e == InsertError(table, r, error)
         IN  IF e = "none" THEN [table |-> table \cup {AnswerRow(r)}, error |-> error]
             ELSE [table |-> table, error |-> IF error = "none" THEN e ELSE error]

\* CacheManager.add_to_cache: the session's Quiz State is created in
\* WaitingToStart when the Store has none, and reused otherwise.
add_to_cache(value) == IF IsNone(value) THEN Some(StoreValue(InitialQuizData)) ELSE value

\* ------------------------------------------------------------ the handshake
\* What a client's handshake carries: the user_id and role headers (None: the
\* header is missing) and the session_id of the path.
UnknownSessionId == "s-unknown"
UserIds == {"u-mod", "u-p1", "u-stranger"}
Roles == {MODERATOR, PARTICIPANT, UNKNOWN, "bogus"}
Handshakes ==
    [user_id : {None} \cup {Some(u) : u \in UserIds},
     role : {None} \cup {Some(r) : r \in Roles},
     session_id : {SessionId, UnknownSessionId}]

\* QuizSessionsRepository.get_session: the one session of the database, whose
\* moderator is u-mod.
get_session(session_id) ==
    IF session_id = SessionId
    THEN Some([session_id |-> SessionId, quiz_id |-> QuizId, moderator_id |-> "u-mod"])
    ELSE None

\* UsersRepository.get_user: the users table holds the moderator and the
\* participants; u-stranger never signed up.
get_user(user_id) ==
    IF user_id \in {"u-mod", "u-p1", "u-p2"} THEN Some([user_id |-> user_id]) ELSE None

\* What validate_connection_and_initialize_cache leaves: the exception it
\* raised (NoError: it returned True), the value under the session's key, and
\* self.quiz_data and self.user.
Refused(e, value) == [exc |-> e, store |-> value, quiz_data |-> None, user |-> None]
Validated(value, user_id) ==
    [exc |-> NoError, store |-> value, quiz_data |-> Some(get_quiz_data(Get(value))),
     user |-> get_user(user_id)]

\* Lines 79-84: the state test that both roles pass through, then get_user.
check_quiz_state(value, user_id) ==
    IF get_quiz_data(Get(value)).quiz_state # WAITING_TO_START
    THEN Refused(SESSION_CLOSED_FOR_NEW_PARTICIPANTS, value)
    ELSE Validated(value, user_id)

\* validate_connection_and_initialize_cache with add_to_cache called before
\* the session and its moderator are looked up.
validate_connection_caching_first(h, value) ==
    IF h.role \notin {Some(r) : r \in WsConnectionType} THEN Refused(PythonError, value)
    ELSE IF IsNone(h.user_id) THEN Refused(MISSING_USER_ID_HEADER, value)
    ELSE IF h.role = Some(MODERATOR)
    THEN IF IsNone(get_session(h.session_id))
         THEN Refused(SESSION_NOT_FOUND, add_to_cache(value))
         ELSE IF Get(get_session(h.session_id)).moderator_id # Get(h.user_id)
         THEN Refused(USER_FORBIDDEN, add_to_cache(value))
         ELSE check_quiz_state(add_to_cache(value), Get(h.user_id))
    ELSE IF h.role = Some(PARTICIPANT)
    THEN IF IsNone(value) THEN Refused(PythonError, value)
         ELSE check_quiz_state(value, Get(h.user_id))
    ELSE Refused(PythonError, value)

\* validate_connection_and_initialize_cache without the test of the state.
validate_connection_in_any_state(h, value) ==
    IF h.role \notin {Some(r) : r \in WsConnectionType} THEN Refused(PythonError, value)
    ELSE IF IsNone(h.user_id) THEN Refused(MISSING_USER_ID_HEADER, value)
    ELSE IF h.role = Some(MODERATOR)
    THEN IF IsNone(get_session(h.session_id)) THEN Refused(SESSION_NOT_FOUND, value)
         ELSE IF Get(get_session(h.session_id)).moderator_id # Get(h.user_id)
         THEN Refused(USER_FORBIDDEN, value)
         ELSE Validated(add_to_cache(value), Get(h.user_id))
    ELSE IF h.role = Some(PARTICIPANT)
    THEN IF IsNone(value) THEN Refused(PythonError, value)
         ELSE Validated(value, Get(h.user_id))
    ELSE Refused(PythonError, value)

\* WebSocketManager.validate_connection_and_initialize_cache, value being what
\* the Store holds under the session's key. WsConnectionType(role) raises
\* ValueError on a role that is none of the enumeration (a missing header
\* included) before the user_id is looked at; get_quiz_data raises on a key
\* the Store does not hold; with the role "unknown" self.quiz_data is still
\* None when its quiz_state is read.
validate_connection_and_initialize_cache(h, value) ==
    IF h.role \notin {Some(r) : r \in WsConnectionType} THEN Refused(PythonError, value)
    ELSE IF IsNone(h.user_id) THEN Refused(MISSING_USER_ID_HEADER, value)
    ELSE IF h.role = Some(MODERATOR)
    THEN IF IsNone(get_session(h.session_id)) THEN Refused(SESSION_NOT_FOUND, value)
         ELSE IF Get(get_session(h.session_id)).moderator_id # Get(h.user_id)
         THEN Refused(USER_FORBIDDEN, value)
         ELSE check_quiz_state(add_to_cache(value), Get(h.user_id))
    ELSE IF h.role = Some(PARTICIPANT)
    THEN IF IsNone(value) THEN Refused(PythonError, value)
         ELSE check_quiz_state(value, Get(h.user_id))
    ELSE Refused(PythonError, value)

\* WebSocketManager.manage_tasks: the tasks created for the connection.
manage_tasks(connection_type) ==
    {"pubsub", "ws", "heartbeat"} \cup (IF connection_type = MODERATOR THEN {"timer"} ELSE {})

\* What main_ws has done when it reaches asyncio.wait or returns before it.
\* close_code is the code the application hands to websocket.close: None when
\* it hands none or never calls it.
Opened(v, outcome, payload, tasks) ==
    [exc |-> v.exc, store |-> v.store, quiz_data |-> v.quiz_data, phase |-> outcome,
     close_code |-> None,
     initial_payload |-> IF IsNone(payload) THEN None
                         ELSE Some(dispatch_to_client(Get(payload), Get(v.quiz_data))),
     published |-> payload, tasks |-> tasks]

\* main_ws going on to send_initial_payload and manage_tasks whatever the
\* validation raised.
main_ws_ignoring_validation(h, value, questions) ==
    LET v == validate_connection_and_initialize_cache(h, value)
        q == IF IsNone(v.quiz_data) THEN InitialQuizData ELSE Get(v.quiz_data)
    IN  Opened([v EXCEPT !.quiz_data = Some(q)], "active", Some(get_payload(q, questions)),
               manage_tasks(IF IsNone(h.role) THEN UNKNOWN ELSE Get(h.role)))

\* main_ws, lines 65-84: the exception of the validation leaves main_ws at
\* line 77, outside its try block, so close_connection is never given the
\* error; send_initial_payload raises for a participant whose user_id the
\* users table does not hold (self.user is None), and main_ws closes the
\* socket before any task is created.
main_ws(h, value, questions) ==
    LET v == validate_connection_and_initialize_cache(h, value)
    IN  IF v.exc # NoError THEN Opened(v, "refused", None, {})
        ELSE IF h.role = Some(PARTICIPANT) /\ IsNone(v.user) THEN Opened(v, "closed", None, {})
        ELSE Opened(v, "active", Some(get_payload(Get(v.quiz_data), questions)),
                    manage_tasks(Get(h.role)))

\* The handshake of connection c of the model: its own user and role, the
\* session's id.
HandshakeOf(c) ==
    [user_id |-> Some(UserOf(c)), role |-> Some(RoleOf(c)), session_id |-> SessionId]

\* ---------------------------------------------------------------- actions
\* The Store's clock advances by a second.
Tick ==
    /\ now < MaxTime
    /\ now' = now + 1
    /\ UNCHANGED <<nq, store, answers, db_error, sent, phase, quiz_data, ws, msg, timer, pubsub, hb,
                   inbox, h_in, h_out, h_payload, hs_in, hs_out>>

\* main_ws up to manage_tasks: validate_connection_and_initialize_cache,
\* send_initial_payload, manage_tasks.
Connect(c) ==
    /\ phase[c] = "new"
    /\ \A d \in OpenedBefore(c) : phase[d] # "new"
    /\ Cardinality({d \in Conns : phase[d] # "new"}) < MaxConns
    /\ LET opened == main_ws(HandshakeOf(c), store, nq)
       IN  /\ store' = opened.store
           /\ phase' = [phase EXCEPT ![c] = opened.phase]
           /\ IF opened.phase = "active"
              THEN /\ quiz_data' = [quiz_data EXCEPT ![c] = Get(opened.quiz_data)]
                   /\ inbox' = Published(Get(opened.published).type)
                   /\ ws' = [ws EXCEPT ![c] = IF "ws" \in opened.tasks THEN "wait" ELSE "off"]
                   /\ pubsub' = [pubsub EXCEPT ![c] =
                                    IF "pubsub" \in opened.tasks THEN "run" ELSE "off"]
                   /\ hb' = [hb EXCEPT ![c] = IF "heartbeat" \in opened.tasks THEN "run" ELSE "off"]
                   /\ timer' = [timer EXCEPT ![c] =
                                   IF "timer" \in opened.tasks THEN "poll" ELSE "off"]
              ELSE UNCHANGED <<quiz_data, inbox, ws, pubsub, hb, timer>>
    /\ UNCHANGED <<nq, now, answers, db_error, sent, msg, h_in, h_out, h_payload, hs_in, hs_out>>

\* listen_to_websocket, lines 120-122: a client message arrives and the
\* listener reads the Quiz State from the Store.
Receive(c, m) ==
    /\ phase[c] = "active" /\ ws[c] = "wait" /\ ~Busy(c)
    /\ sent < MaxMsgs
    /\ sent' = sent + 1
    /\ quiz_data' = [quiz_data EXCEPT ![c] = Stored]
    /\ msg' = [msg EXCEPT ![c] = m]
    /\ ws' = [ws EXCEPT ![c] = "handling"]
    /\ UNCHANGED <<nq, now, store, answers, db_error, phase, timer, pubsub, hb, inbox, h_in, h_out, h_payload, hs_in, hs_out>>

\* listen_to_websocket with the write and the publish moved out of the try
\* block: they run for a message whose handling raised as well.
Handle_persisting_failures(c) ==
    /\ ws[c] = "handling"
    /\ LET r == handle_message(msg[c], quiz_data[c], RoleOf(c), UserOf(c), nq, now)
       IN  /\ answers' = insert_users_answer(answers, r.insert, db_error[c]).table
           /\ db_error' = [db_error EXCEPT
                              ![c] = insert_users_answer(answers, r.insert, @).error]
           /\ quiz_data' = [quiz_data EXCEPT ![c] = r.quiz_data]
           /\ store' = update_quiz_data(store, r.quiz_data, TRUE)
           /\ IF PayloadFails(r.quiz_data)
              THEN /\ ws' = [ws EXCEPT ![c] = "done"]
                   /\ UNCHANGED inbox
              ELSE /\ ws' = [ws EXCEPT ![c] = IF r.exc # NoError THEN "done" ELSE "wait"]
                   /\ inbox' = Published(get_payload(r.quiz_data, nq).type)
    /\ msg' = [msg EXCEPT ![c] = NoMessage]
    /\ UNCHANGED <<nq, now, sent, phase, timer, pubsub, hb, h_in, h_out, h_payload, hs_in, hs_out>>

\* listen_to_websocket, lines 124-145: handle_message, then update_quiz_data,
\* get_payload and the publish; any exception ends the listener.
Handle(c) ==
    /\ ws[c] = "handling"
    /\ LET r == handle_message(msg[c], quiz_data[c], RoleOf(c), UserOf(c), nq, now)
       IN  IF r.exc # NoError
           THEN /\ ws' = [ws EXCEPT ![c] = "done"]
                /\ UNCHANGED <<store, answers, db_error, quiz_data, inbox>>
           ELSE /\ answers' = insert_users_answer(answers, r.insert, db_error[c]).table
                /\ db_error' = [db_error EXCEPT
                                   ![c] = insert_users_answer(answers, r.insert, @).error]
                /\ quiz_data' = [quiz_data EXCEPT ![c] = r.quiz_data]
                /\ store' = update_quiz_data(store, r.quiz_data, TRUE)
                /\ IF PayloadFails(r.quiz_data)
                   THEN /\ ws' = [ws EXCEPT ![c] = "done"]
                        /\ UNCHANGED inbox
                   ELSE /\ ws' = [ws EXCEPT ![c] = "wait"]
                        /\ inbox' = Published(get_payload(r.quiz_data, nq).type)
    /\ msg' = [msg EXCEPT ![c] = NoMessage]
    /\ UNCHANGED <<nq, now, sent, phase, timer, pubsub, hb, h_in, h_out, h_payload, hs_in, hs_out>>

\* A task of the connection has finished.
TaskDone(c) ==
    \/ ws[c] = "done"
    \/ timer[c] = "failed"
    \/ pubsub[c] \in {"ended", "failed"}
    \/ hb[c] = "done"

\* The client goes away: receive_json raises, the listener returns, and
\* main_ws (lines 92-98, 114-118) cancels the pending tasks of a socket that
\* is no longer connected. The connection's object is dropped.
ClientDisconnect(c) ==
    /\ phase[c] = "active" /\ ws[c] = "wait" /\ ~Busy(c)
    /\ ~TaskDone(c)
    /\ phase' = [phase EXCEPT ![c] = "closed"]
    /\ ws' = [ws EXCEPT ![c] = "done"]
    /\ timer' = [timer EXCEPT ![c] = IF @ = "poll" THEN "cancelled" ELSE @]
    /\ pubsub' = [pubsub EXCEPT ![c] = "cancelled"]
    /\ hb' = [hb EXCEPT ![c] = "cancelled"]
    /\ quiz_data' = [quiz_data EXCEPT ![c] = InitialQuizData]
    /\ inbox' = [inbox EXCEPT ![c] = << >>]
    /\ UNCHANGED <<nq, now, store, answers, db_error, sent, msg, h_in, h_out, h_payload, hs_in, hs_out>>

\* quiz_timer, lines 248-258: the timer reads its own copy of the Quiz State
\* from the Store and finds the question's deadline reached.
TimerPoll(c) ==
    /\ timer[c] = "poll" /\ ~Busy(c)
    /\ Stored.quiz_state = ACTIVE
    /\ now >= Stored.current_question_end_timestamp
    /\ timer' = [timer EXCEPT ![c] = "fire"]
    /\ UNCHANGED <<nq, now, store, answers, db_error, sent, phase, quiz_data, ws, msg, pubsub, hb, inbox,
                   h_in, h_out, h_payload, hs_in, hs_out>>

\* The Quiz State the timer hands to handle_message: self.quiz_data.
TimerInput(c) == quiz_data[c]

\* quiz_timer, lines 260-274: the timeout message is handled, the result
\* written to the Store and published.
TimerFire(c) ==
    /\ timer[c] = "fire"
    /\ LET r == handle_message(TimeoutMsg, TimerInput(c), RoleOf(c), UserOf(c), nq, now)
       IN  IF r.exc # NoError
           THEN /\ timer' = [timer EXCEPT ![c] = "failed"]
                /\ UNCHANGED <<store, quiz_data, inbox>>
           ELSE /\ quiz_data' = [quiz_data EXCEPT ![c] = r.quiz_data]
                /\ store' = update_quiz_data(store, r.quiz_data, TRUE)
                /\ IF PayloadFails(r.quiz_data)
                   THEN /\ timer' = [timer EXCEPT ![c] = "failed"]
                        /\ UNCHANGED inbox
                   ELSE /\ timer' = [timer EXCEPT ![c] = "poll"]
                        /\ inbox' = Published(get_payload(r.quiz_data, nq).type)
    /\ UNCHANGED <<nq, now, answers, db_error, sent, phase, ws, msg, pubsub, hb, h_in, h_out, h_payload, hs_in, hs_out>>

\* listen_to_pubsub_channel: on a notification the listener re-reads the Quiz
\* State; handle_pubsub_msg raises QuizEndedException on type "end"; any other
\* payload is dispatched to the client.
PubSubDeliver(c) ==
    /\ pubsub[c] = "run" /\ ~Busy(c)
    /\ inbox[c] # << >>
    /\ inbox' = [inbox EXCEPT ![c] = Tail(inbox[c])]
    /\ quiz_data' = [quiz_data EXCEPT ![c] = Stored]
    /\ pubsub' = [pubsub EXCEPT ![c] =
                    IF Head(inbox[c]) = "end" THEN "ended"
                    ELSE IF SocketOpen(c) THEN "run" ELSE "failed"]
    /\ UNCHANGED <<nq, now, store, answers, db_error, sent, phase, ws, msg, timer, hb, h_in, h_out, h_payload, hs_in, hs_out>>

\* heartbeat dispatching the projection of the connection's own copy of the
\* Quiz State without reading the Store again.
Heartbeat_without_reread(c) ==
    /\ hb[c] = "run" /\ ~Busy(c)
    /\ hb' = [hb EXCEPT ![c] = IF PayloadFails(quiz_data[c]) \/ ~SocketOpen(c) THEN "done" ELSE "run"]
    /\ \/ quiz_data[c] # Stored
       \/ PayloadFails(quiz_data[c]) \/ ~SocketOpen(c)
    /\ UNCHANGED <<nq, now, store, answers, db_error, sent, phase, quiz_data, ws, msg, timer, pubsub,
                   inbox, h_in, h_out, h_payload, hs_in, hs_out>>

\* heartbeat: after the interval the Quiz State is re-read, projected and
\* dispatched; an exception ends the task.
Heartbeat(c) ==
    /\ hb[c] = "run" /\ ~Busy(c)
    /\ quiz_data' = [quiz_data EXCEPT ![c] = Stored]
    /\ hb' = [hb EXCEPT ![c] = IF PayloadFails(Stored) \/ ~SocketOpen(c) THEN "done" ELSE "run"]
    /\ \/ quiz_data[c] # Stored
       \/ PayloadFails(Stored) \/ ~SocketOpen(c)
    /\ UNCHANGED <<nq, now, store, answers, db_error, sent, phase, ws, msg, timer, pubsub, inbox,
                   h_in, h_out, h_payload, hs_in, hs_out>>

\* main_ws, lines 100-106: the pending tasks are cancelled when a finished
\* task raised QuizEndedException (the client is still connected).
CancelsPending(c) == pubsub[c] = "ended"

\* main_ws, lines 86-118: asyncio.wait returns on the first finished task;
\* the socket is closed. A connection whose tasks are all cancelled is dropped.
Coordinate(c) ==
    /\ phase[c] = "active" /\ ~Busy(c)
    /\ TaskDone(c)
    /\ phase' = [phase EXCEPT ![c] = "closed"]
    /\ IF CancelsPending(c)
       THEN /\ ws' = [ws EXCEPT ![c] = IF @ = "wait" THEN "cancelled" ELSE @]
            /\ timer' = [timer EXCEPT ![c] = IF @ = "poll" THEN "cancelled" ELSE @]
            /\ pubsub' = [pubsub EXCEPT ![c] = IF @ = "run" THEN "cancelled" ELSE @]
            /\ hb' = [hb EXCEPT ![c] = IF @ = "run" THEN "cancelled" ELSE @]
            /\ quiz_data' = [quiz_data EXCEPT ![c] = InitialQuizData]
            /\ inbox' = [inbox EXCEPT ![c] = << >>]
       ELSE UNCHANGED <<ws, timer, pubsub, hb, quiz_data, inbox>>
    /\ UNCHANGED <<nq, now, store, answers, db_error, sent, msg, h_in, h_out, h_payload, hs_in, hs_out>>

Next ==
    \/ Tick
    \/ \E c \in Conns : Connect(c)
    \/ \E c \in Conns : \E m \in ClientMessages(c) : Receive(c, m)
    \/ \E c \in Conns : Handle(c)
    \/ \E c \in Conns : ClientDisconnect(c)
    \/ \E c \in Conns : TimerPoll(c)
    \/ \E c \in Conns : TimerFire(c)
    \/ \E c \in Conns : PubSubDeliver(c)
    \/ \E c \in Conns : Heartbeat(c)
    \/ \E c \in Conns : Coordinate(c)

\* The session coordinator: connections, their tasks, the Store, the channel.
Spec == Init /\ [][Next]_vars

\* ------------------------------------------------- the registry on its own
\* One connection after another hands a message to handle_message: the Quiz
\* State it is given is the one the previous successful call left, read back
\* from the Store (a failed call writes nothing).
HandlerState ==
    IF h_out.exc = NoError /\ h_payload.stored
    THEN get_quiz_data(Get(update_quiz_data(None, h_out.quiz_data, TRUE)))
    ELSE h_in.quiz_data

\* listen_to_websocket, lines 132-142, and listen_to_pubsub_channel: whether
\* update_quiz_data stored the handler's result r (its return value is not
\* looked at), the payload published for r, and what the broadcast listener
\* of a connection, having re-read the Store (before: the Quiz State it held
\* before r), dispatches to its client (nothing on "end": handle_pubsub_msg
\* raises QuizEndedException).
PublishedFor(r, before, ok) ==
    IF r.exc # NoError \/ PayloadFails(r.quiz_data)
    THEN [published |-> None, dispatched |-> None, stored |-> r.exc = NoError /\ ok]
    ELSE LET payload == get_payload(r.quiz_data, nq)
             after == get_quiz_data(Get(update_quiz_data(Some(StoreValue(before)),
                                                         r.quiz_data, ok)))
         IN  [published |-> Some(payload),
              dispatched |-> IF payload.type = "end" THEN None
                             ELSE Some(dispatch_to_client(payload, after)),
              stored |-> ok]

HandleMessage(m, role, t, ok) ==
    LET r == handle_message(m, HandlerState, role,
                            IF role = MODERATOR THEN "u-mod" ELSE "u-p1", nq, t)
    IN  /\ h_in' = [message |-> m, quiz_data |-> HandlerState, connection_type |-> role,
                    now |-> t]
        /\ h_out' = r
        /\ h_payload' = PublishedFor(r, HandlerState, ok)
        /\ UNCHANGED <<nq, now, store, answers, db_error, sent, phase, quiz_data, ws, msg, timer,
                       pubsub, hb, inbox, hs_in, hs_out>>

HandlerNext ==
    \E m \in Messages : \E role \in {MODERATOR, PARTICIPANT} : \E t \in h_in.now..MaxTime :
        \E ok \in BOOLEAN : HandleMessage(m, role, t, ok)

HandlerSpec == Init /\ [][HandlerNext]_vars

\* ------------------------------------------------ the handshake on its own
\* The value the Store holds under the key of a session: the model's store is
\* the key of SessionId, and no key of another session is ever written.
StoreOf(session_id) == IF session_id = SessionId THEN store ELSE None

\* main_ws, lines 65-84, for a client other than the model's connections: the
\* handshake h is validated against the Store, the Quiz State is created by
\* the moderator's first handshake, and the initial payload of an admitted
\* connection is published to the session's subscribers.
Handshake(h) ==
    LET opened == main_ws(h, StoreOf(h.session_id), nq)
    IN  /\ hs_in' = [user_id |-> h.user_id, role |-> h.role, session_id |-> h.session_id,
                     store |-> StoreOf(h.session_id)]
        /\ hs_out' = opened
        /\ store' = IF h.session_id = SessionId THEN opened.store ELSE store
        /\ inbox' = IF IsNone(opened.published) THEN inbox
                    ELSE Published(Get(opened.published).type)
        /\ UNCHANGED <<nq, now, answers, db_error, sent, phase, quiz_data, ws, msg, timer, pubsub,
                       hb, h_in, h_out, h_payload>>

\* Handshakes arriving while the moderator's connection m1 runs the quiz.
HandshakeNext ==
    \/ Tick
    \/ Connect("m1")
    \/ \E m \in ModeratorCmds : Receive("m1", m)
    \/ Handle("m1")
    \/ TimerPoll("m1")
    \/ TimerFire("m1")
    \/ \E h \in Handshakes : Handshake(h)

HandshakeSpec == Init /\ [][HandshakeNext]_vars

\* ------------------------------------------- the participants' submissions
\* The answers a participant's client submits: every question-id (0: none of
\* the quiz), every answer-id (0: none of the question), either quiz-id.
Submissions == AnswerMsgs("participant-choice")

\* The session once the moderator has started the quiz at time 0 with both
\* participants connected, every notification delivered, and has closed its
\* connection. sent counts the messages received from here on.
AnswerInit ==
    LET started == get_quiz_data(StoreValue(start_quiz(InitialQuizData, nq, 0)))
    IN  /\ nq \in 1..MaxQuestions
        /\ now = 0
        /\ store = Some(StoreValue(started))
        /\ answers = {}
        /\ db_error = [c \in Conns |-> "none"]
        /\ sent = 0
        /\ phase = [c \in Conns |-> IF c \in Participants THEN "active"
                                     ELSE IF c = "m1" THEN "closed" ELSE "new"]
        /\ quiz_data = [c \in Conns |-> IF c \in Participants THEN started ELSE InitialQuizData]
        /\ ws = [c \in Conns |-> IF c \in Participants THEN "wait"
                                  ELSE IF c = "m1" THEN "done" ELSE "off"]
        /\ msg = [c \in Conns |-> NoMessage]
        /\ timer = [c \in Conns |-> IF c = "m1" THEN "cancelled" ELSE "off"]
        /\ pubsub = [c \in Conns |-> IF c \in Participants THEN "run"
                                      ELSE IF c = "m1" THEN "cancelled" ELSE "off"]
        /\ hb = [c \in Conns |-> IF c \in Participants THEN "run"
                                  ELSE IF c = "m1" THEN "cancelled" ELSE "off"]
        /\ inbox = [c \in Conns |-> << >>]
        /\ HInit

AnswerNext ==
    \/ Tick
    \/ \E c \in Participants : \E m \in Submissions : Receive(c, m)
    \/ \E c \in Participants : Handle(c)
    \/ \E c \in Participants : ClientDisconnect(c)
    \/ \E c \in Participants : PubSubDeliver(c)
    \/ \E c \in Participants : Heartbeat(c)
    \/ \E c \in Participants : Coordinate(c)

\* The participants submitting answers to the started quiz.
AnswerSpec == AnswerInit /\ [][AnswerNext]_vars

\* ------------------------------------------------ the connection's ceiling
\* WEBSOCKET_TIMEOUT (seconds), the default of main.py.
WEBSOCKET_TIMEOUT == 360
\* The idle stretches of the clock: half the ceiling at a time, MaxIdle times.
IdleStep == WEBSOCKET_TIMEOUT \div 2
MaxIdle == 2

\* The connections that are open in CeilingInit.
CeilingConns == {"m1", "p1"}

\* The messages their clients send: the moderator starts and ends the quiz,
\* the participant answers question 1 and leaves.
CeilingMessages(c) ==
    IF RoleOf(c) = MODERATOR THEN {StartQuizMsg, EndQuizMsg}
    ELSE {Cmd("participant-choice", "Leave Quiz"), Answer("participant-choice", 1, 2, QuizId)}

\* The time at which main_ws called asyncio.wait for connection c: the
\* connections of CeilingInit started their listeners at time 0.
ListenersStarted(c) == 0

\* asyncio.wait without its timeout argument.
wait_without_timeout(started, t) == FALSE

\* asyncio.wait(tasks, timeout=WEBSOCKET_TIMEOUT) called at time started gives
\* up at time t.
wait_timed_out(started, t) == t >= started + WEBSOCKET_TIMEOUT

\* The session at time 0 with the moderator and one participant connected and
\* every notification delivered.
CeilingInit ==
    /\ nq \in 0..MaxQuestions
    /\ now = 0
    /\ store = Some(StoreValue(InitialQuizData))
    /\ answers = {}
    /\ db_error = [c \in Conns |-> "none"]
    /\ sent = 0
    /\ phase = [c \in Conns |-> IF c \in CeilingConns THEN "active" ELSE "new"]
    /\ quiz_data = [c \in Conns |-> InitialQuizData]
    /\ ws = [c \in Conns |-> IF c \in CeilingConns THEN "wait" ELSE "off"]
    /\ msg = [c \in Conns |-> NoMessage]
    /\ timer = [c \in Conns |-> IF c = "m1" THEN "poll" ELSE "off"]
    /\ pubsub = [c \in Conns |-> IF c \in CeilingConns THEN "run" ELSE "off"]
    /\ hb = [c \in Conns |-> IF c \in CeilingConns THEN "run" ELSE "off"]
    /\ inbox = [c \in Conns |-> << >>]
    /\ HInit

\* The Store's clock after an idle stretch.
Idle ==
    /\ now < MaxIdle * IdleStep
    /\ now' = now + IdleStep
    /\ UNCHANGED <<nq, store, answers, db_error, sent, phase, quiz_data, ws, msg, timer, pubsub, hb,
                   inbox, h_in, h_out, h_payload, hs_in, hs_out>>

\* main_ws, lines 86-118: asyncio.wait gives up with no task done; the client
\* is connected, so no pending task is cancelled (line 94), and the socket is
\* closed (line 118).
Timeout(c) ==
    /\ phase[c] = "active" /\ ~Busy(c)
    /\ ~TaskDone(c)
    /\ wait_timed_out(ListenersStarted(c), now)
    /\ phase' = [phase EXCEPT ![c] = "closed"]
    /\ UNCHANGED <<nq, now, store, answers, db_error, sent, quiz_data, ws, msg, timer, pubsub, hb,
                   inbox, h_in, h_out, h_payload, hs_in, hs_out>>

CeilingNext ==
    \/ Idle
    \/ \E c \in CeilingConns : \E m \in CeilingMessages(c) : Receive(c, m)
    \/ \E c \in CeilingConns : Handle(c)
    \/ \E c \in CeilingConns : ClientDisconnect(c)
    \/ \E c \in CeilingConns : TimerPoll(c)
    \/ \E c \in CeilingConns : TimerFire(c)
    \/ \E c \in CeilingConns : PubSubDeliver(c)
    \/ \E c \in CeilingConns : Heartbeat(c)
    \/ \E c \in CeilingConns : Coordinate(c)
    \/ \E c \in CeilingConns : Timeout(c)

\* The session over idle stretches as long as the connection's ceiling.
CeilingSpec == CeilingInit /\ [][CeilingNext]_vars

\* The event loop runs every callback that is ready: a task between its read
\* of the Store and its write goes on, and main_ws goes on when asyncio.wait
\* has returned.
CeilingFairness ==
    \A c \in CeilingConns :
        /\ WF_vars(Handle(c))
        /\ WF_vars(TimerFire(c))
        /\ WF_vars(Coordinate(c))
        /\ WF_vars(Timeout(c))

CeilingFairSpec == CeilingSpec /\ CeilingFairness

\* ----------------------------------------------------------- the quiz's end
\* The moderator's two connections are open.
EndConns == {"m1", "m2"}

\* The messages their clients send.
EndMessages == {StartQuizMsg, EndQuizMsg, NoChoice("unregistered")}

\* The session of a quiz with at least one question, at time 0, both
\* connections open and every notification delivered.
EndInit ==
    /\ nq \in 1..MaxQuestions
    /\ now = 0
    /\ store = Some(StoreValue(InitialQuizData))
    /\ answers = {}
    /\ db_error = [c \in Conns |-> "none"]
    /\ sent = 0
    /\ phase = [c \in Conns |-> IF c \in EndConns THEN "active" ELSE "new"]
    /\ quiz_data = [c \in Conns |-> InitialQuizData]
    /\ ws = [c \in Conns |-> IF c \in EndConns THEN "wait" ELSE "off"]
    /\ msg = [c \in Conns |-> NoMessage]
    /\ timer = [c \in Conns |-> IF c \in EndConns THEN "poll" ELSE "off"]
    /\ pubsub = [c \in Conns |-> IF c \in EndConns THEN "run" ELSE "off"]
    /\ hb = [c \in Conns |-> IF c \in EndConns THEN "run" ELSE "off"]
    /\ inbox = [c \in Conns |-> << >>]
    /\ HInit

EndNext ==
    \/ Tick
    \/ \E c \in EndConns : \E m \in EndMessages : Receive(c, m)
    \/ \E c \in EndConns : Handle(c)
    \/ \E c \in EndConns : ClientDisconnect(c)
    \/ \E c \in EndConns : TimerPoll(c)
    \/ \E c \in EndConns : TimerFire(c)
    \/ \E c \in EndConns : PubSubDeliver(c)
    \/ \E c \in EndConns : Heartbeat(c)
    \/ \E c \in EndConns : Coordinate(c)

\* The moderator's two connections up to the end of the quiz.
EndSpec == EndInit /\ [][EndNext]_vars

\* The event loop runs every callback that is ready, the channel delivers
\* what was published and the heartbeat's interval elapses.
EndFairness ==
    \A c \in EndConns :
        /\ WF_vars(Handle(c))
        /\ WF_vars(TimerFire(c))
        /\ WF_vars(PubSubDeliver(c))
        /\ WF_vars(Heartbeat(c))
        /\ WF_vars(Coordinate(c))

EndFairSpec == EndSpec /\ EndFairness

\* ------------------------------------------------- notifications that are lost
\* The moderator and one participant are open; the participant's client
\* sends nothing.
HeartbeatConns == {"m1", "p1"}

\* The messages the moderator's client sends.
HeartbeatMessages == {StartQuizMsg, NextQuestionMsg, EndQuizMsg}

\* The session at time 0 with both connections open.
HeartbeatInit ==
    /\ nq \in 0..MaxQuestions
    /\ now = 0
    /\ store = Some(StoreValue(InitialQuizData))
    /\ answers = {}
    /\ db_error = [c \in Conns |-> "none"]
    /\ sent = 0
    /\ phase = [c \in Conns |-> IF c \in HeartbeatConns THEN "active" ELSE "new"]
    /\ quiz_data = [c \in Conns |-> InitialQuizData]
    /\ ws = [c \in Conns |-> IF c \in HeartbeatConns THEN "wait" ELSE "off"]
    /\ msg = [c \in Conns |-> NoMessage]
    /\ timer = [c \in Conns |-> IF c = "m1" THEN "poll" ELSE "off"]
    /\ pubsub = [c \in Conns |-> IF c \in HeartbeatConns THEN "run" ELSE "off"]
    /\ hb = [c \in Conns |-> IF c \in HeartbeatConns THEN "run" ELSE "off"]
    /\ inbox = [c \in Conns |-> << >>]
    /\ HInit

\* PubSubManager._publish_loop and listen_to_channel: Redis pub/sub keeps
\* nothing for a subscriber it cannot reach, and a publish that raises is
\* logged and dropped: the notification never reaches connection c.
LoseNotification(c) ==
    /\ pubsub[c] = "run"
    /\ inbox[c] # << >>
    /\ inbox' = [inbox EXCEPT ![c] = Tail(inbox[c])]
    /\ UNCHANGED <<nq, now, store, answers, db_error, sent, phase, quiz_data, ws, msg, timer, pubsub,
                   hb, h_in, h_out, h_payload, hs_in, hs_out>>

\* The moderator's notifications arrive; every notification to the
\* participant is lost.
HeartbeatNext ==
    \/ Tick
    \/ \E m \in HeartbeatMessages : Receive("m1", m)
    \/ \E c \in HeartbeatConns : Handle(c)
    \/ \E c \in HeartbeatConns : TimerPoll(c)
    \/ \E c \in HeartbeatConns : TimerFire(c)
    \/ PubSubDeliver("m1")
    \/ LoseNotification("p1")
    \/ \E c \in HeartbeatConns : Heartbeat(c)
    \/ \E c \in HeartbeatConns : Coordinate(c)

\* The session with a participant that no notification reaches.
HeartbeatSpec == HeartbeatInit /\ [][HeartbeatNext]_vars

\* The event loop runs every callback that is ready and the heartbeat's
\* interval elapses.
HeartbeatFairness ==
    \A c \in HeartbeatConns :
        /\ WF_vars(Handle(c))
        /\ WF_vars(TimerFire(c))
        /\ WF_vars(Heartbeat(c))
        /\ WF_vars(Coordinate(c))

HeartbeatFairSpec == HeartbeatSpec /\ HeartbeatFairness

\* The fields of a Quiz State that the state machine's transitions concern.
View(q) == <<q.quiz_state, q.current_question_number, q.current_question>>

\* ------------------------------------------------------------------ claims

\* A step in which the inbound listener of connection c finishes handling
\* its message.
HandledBy(c) == ws[c] = "handling" /\ ws'[c] # "handling"
\* A step in which the question timer of connection c finishes its firing.
FiredBy(c) == timer[c] = "fire" /\ timer'[c] # "fire"

\* C1: no action of a participant-role connection changes the state, the
\* question index or the current question held in the Store: the step in
\* which a participant's inbound listener finishes handling a message leaves
\* them as they are.
C1_ParticipantNeverChangesStore ==
    [][\A c \in Conns :
          (RoleOf(c) = PARTICIPANT /\ HandledBy(c) /\ ~IsNone(store))
              => View(get_quiz_data(Get(store'))) = View(Stored)]_vars

\* A message kind only the moderator may send: moderator-choice with a cmd
\* option, or timeout.
ModeratorOnly(m) ==
    \/ m.type = "moderator-choice" /\ m.has_choice /\ m.option_type = "cmd"
    \/ m.type = "timeout"

\* C2: in every quiz state, handle_message called for a participant with a
\* moderator-only message fails with Forbidden (status 403, code 4030).
C2_ParticipantModeratorOnlyForbidden ==
    (h_in.connection_type = PARTICIPANT /\ ModeratorOnly(h_in.message))
        => (h_out.exc.kind = "Forbidden" /\ h_out.exc.status_code = 403
            /\ h_out.exc.error_code = 4030)

\* C3: Ended is terminal: once the Store's Quiz State is Ended, no step
\* changes its state, question index or current question.
C3_EndedIsTerminal ==
    [][(~IsNone(store) /\ Stored.quiz_state = ENDED)
          => View(get_quiz_data(Get(store'))) = View(Stored)]_vars

\* C4: a firing of the question timer applies the Active -> QuestionTimedOut
\* transition to the Quiz State in the Store, once: when the Store is Active
\* the firing leaves it QuestionTimedOut with everything else as it was, and
\* when it is no longer Active (the transition has been applied) the firing
\* changes nothing.
C4_TimeoutAppliedExactlyOnce ==
    [][\A c \in Conns :
          FiredBy(c) =>
              get_quiz_data(Get(store')) =
                  IF Stored.quiz_state = ACTIVE
                  THEN [Stored EXCEPT !.quiz_state = QUESTION_TIMEDOUT]
                  ELSE Stored]_vars

\* C5: in every reachable Store state, Active implies a current question.
C5_ActiveHasQuestion ==
    (~IsNone(store) /\ Stored.quiz_state = ACTIVE) => ~IsNone(Stored.current_question)

\* C6: the question index held in the Store never decreases from one stored
\* value to the next.
C6_IndexNeverDecreases ==
    [][~IsNone(store) =>
          get_quiz_data(Get(store')).current_question_number
              >= Stored.current_question_number]_vars

NextQuestionHandled ==
    /\ h_in.connection_type = MODERATOR /\ h_in.message = NextQuestionMsg
    /\ h_in.quiz_data.quiz_state \in {ACTIVE, QUESTION_TIMEDOUT}

TimeoutHandled == h_in.connection_type = MODERATOR /\ h_in.message = TimeoutMsg

\* C12: a timeout handled on a Quiz State that is not Active returns the
\* Quiz State equal to the input in every field, and handling timeout on the
\* result of a handled timeout returns that result again.
C12_TimeoutIdempotent ==
    TimeoutHandled =>
        /\ h_out.exc = NoError
        /\ h_in.quiz_data.quiz_state # ACTIVE => h_out.quiz_data = h_in.quiz_data
        /\ handle_message(TimeoutMsg, h_out.quiz_data, MODERATOR, "u-mod", nq, h_in.now)
               = h_out

\* C12 witness: a timeout has been handled on a Quiz State already in
\* QuestionTimedOut.
C12_Witness ==
    /\ TimeoutHandled /\ h_in.quiz_data.quiz_state = QUESTION_TIMEDOUT
    /\ h_out.quiz_data.quiz_state = QUESTION_TIMEDOUT

\* C13: a Participant Answer is appended only while the Store's state is
\* Active: a step that adds a row to the table starts with the Store Active.
C13_AnswersOnlyWhileActive ==
    [][answers' # answers => (~IsNone(store) /\ Stored.quiz_state = ACTIVE)]_vars

\* C14: an answer whose question-id is not the id of the current question is
\* never recorded as correct: a row added with is_correct true carries the id
\* of the question that is current in the Store.
C14_CorrectOnlyForCurrentQuestion ==
    [][\A r \in answers' \ answers :
          r.is_correct =>
              /\ ~IsNone(store) /\ ~IsNone(Stored.current_question)
              /\ r.question_id = Get(Stored.current_question).question_id]_vars

\* An answer has been given to the handler for a participant on an Active
\* Quiz State with its question loaded.
AnswerHandled ==
    /\ h_in.connection_type = PARTICIPANT
    /\ h_in.message.type = "participant-choice" /\ h_in.message.option_type = "answer"
    /\ h_in.quiz_data.quiz_state = ACTIVE /\ ~IsNone(h_in.quiz_data.current_question)

\* The answer names another quiz, or a question or an answer option that the
\* quiz does not have.
Mismatched(m) ==
    \/ m.quiz_id # QuizId
    \/ m.question_id \notin 1..nq
    \/ m.answer_id \notin {AnswerOptionsOf(m.question_id, QuizId)[i].answer_id : i \in 1..2}

\* C15: scoring fails closed: an answer handled while Active whose quiz-id is
\* not the session's, or whose question-id or answer-id is unknown, does not
\* make the handler fail and is handed to the database with is_correct false.
C15_ScoringFailsClosed ==
    (AnswerHandled /\ Mismatched(h_in.message))
        => /\ h_out.exc = NoError
           /\ ~IsNone(h_out.insert)
           /\ ~Get(h_out.insert).is_correct

\* C16: the table holds at most one Participant Answer per (session_id,
\* user_id, question_id), and a later submission neither adds a second row for
\* the key nor changes the first: every step keeps the rows there are and
\* leaves the key unique.
C16_OneAnswerPerKey ==
    [][/\ \A r \in answers : r \in answers'
       /\ \A r1, r2 \in answers' :
             (r1.user_id = r2.user_id /\ r1.question_id = r2.question_id) => r1 = r2]_vars

\* C16 witness: a participant has submitted a second answer for a question it
\* had answered, and the database has refused the row on the primary key.
C16_Witness ==
    \E c \in Participants :
        /\ db_error[c] = "UniqueViolation"
        /\ \E r \in answers : r.user_id = UserOf(c)

\* The inbound listener of participant c is handling an answer for the
\* question that is current in the Store, the first c's user submits for it.
Submitting(c) ==
    /\ ws[c] = "handling" /\ msg[c].option_type = "answer"
    /\ quiz_data[c].quiz_state = ACTIVE
    /\ ~IsNone(Stored.current_question)
    /\ msg[c].question_id = Get(Stored.current_question).question_id
    /\ ~\E r \in answers : r.user_id = UserOf(c) /\ r.question_id = msg[c].question_id

\* The table holds the answer of c's user for the question current in the
\* Store.
Persisted(table, c) ==
    \E r \in table :
        r.user_id = UserOf(c) /\ r.question_id = Get(Stored.current_question).question_id

\* C17: two participants with distinct user_id submit answers for the same
\* current question concurrently: when the listener of one finishes while the
\* other's submission is in flight or already persisted, its submission has
\* not failed and its Participant Answer is in the table.
C17_ConcurrentAnswersBothPersisted ==
    [][\A c, d \in Participants :
          (/\ c # d /\ HandledBy(c) /\ Submitting(c)
           /\ (Submitting(d) \/ Persisted(answers, d)))
              => (ws'[c] = "wait" /\ Persisted(answers', c))]_vars

\* The dumped question carries the correctness flag of an answer option.
ShowsCorrectness(question) ==
    /\ ~IsNone(question)
    /\ "answers" \in DOMAIN Get(question)
    /\ \E i \in 1..Len(Get(question).answers) :
          "correct_answer" \in DOMAIN Get(question).answers[i]

\* C18: what the broadcast listener of a participant connection sends to its
\* client carries no answer option's correctness flag until results are
\* shown: neither the forwarded payload's quiz_data and participant menu nor
\* the projection under "quiz-state" (so the payloads do not depend on which
\* option is marked correct).
C18_ParticipantPayloadHidesCorrectness ==
    (~IsNone(h_payload.dispatched)
     /\ Get(h_payload.dispatched).payload.quiz_data.quiz_state # SHOW_RESULTS)
        => LET sent_json == Get(h_payload.dispatched)
           IN  /\ ~ShowsCorrectness(sent_json.payload.quiz_data.current_question)
               /\ ~ShowsCorrectness(Get(sent_json.quiz_state).current_question)
               /\ \A i \in 1..Len(sent_json.payload.participant_menu) :
                     "correct_answer" \notin DOMAIN sent_json.payload.participant_menu[i]

\* The menu offers the option.
Offers(menu, option) == \E i \in 1..Len(menu) : menu[i] = option

\* C19: in every payload published for a Quiz State in Active or
\* QuestionTimedOut the moderator menu offers Go To Results exactly when the
\* question index equals the number of questions, Next Question exactly when
\* it does not, and End Quiz always.
C19_ModeratorMenuByLastQuestion ==
    (~IsNone(h_payload.published)
     /\ Get(h_payload.published).quiz_data.quiz_state \in {ACTIVE, QUESTION_TIMEDOUT})
        => LET payload == Get(h_payload.published)
               last == payload.quiz_data.current_question_number = nq
           IN  /\ Offers(payload.moderator_menu, "Go To Results") <=> last
               /\ Offers(payload.moderator_menu, "Next Question") <=> ~last
               /\ Offers(payload.moderator_menu, "End Quiz")

\* C19 witness: a payload has been published for the timed-out last question
\* of a quiz of two questions; its menu offers Go To Results.
C19_Witness ==
    /\ ~IsNone(h_payload.published) /\ nq = 2
    /\ Get(h_payload.published).quiz_data.quiz_state = QUESTION_TIMEDOUT
    /\ Get(h_payload.published).quiz_data.current_question_number = 2
    /\ Offers(Get(h_payload.published).moderator_menu, "Go To Results")

\* C20: round trip through the Store: the Quiz State read right after
\* update_quiz_data(q) equals q in every field, the nested question's quiz_id,
\* answer options and correctness flags included. The handler's result is
\* written to the Store and read back as the input of the next call.
C20_StoreRoundTrip ==
    [][(h_out.exc = NoError /\ h_payload.stored) => h_in'.quiz_data = h_out.quiz_data]_vars

\* A listener task of connection c is still running.
Running(c) ==
    \/ ws[c] \in {"wait", "handling"}
    \/ timer[c] \in {"poll", "fire"}
    \/ pubsub[c] = "run"
    \/ hb[c] = "run"

\* C21: first-completed-wins: the step in which the coordinator of an active
\* connection acts on a finished listener task (it returned after a swallowed
\* error, raised, ended on UserLeft or QuizEnded) leaves the connection closed
\* and none of its other listener tasks running.
C21_FirstCompletedWins ==
    [][\A c \in Conns :
          (phase[c] = "active" /\ TaskDone(c) /\ phase'[c] # "active")
              => (phase'[c] = "closed" /\ ~Running(c)')]_vars

\* C22: once a connection is closed, none of its listener tasks is running.
C22_ClosedHasNoRunningTask ==
    \A c \in Conns : phase[c] = "closed" => ~Running(c)

\* The ceiling of connection c has elapsed with none of its tasks done.
CeilingReached(c) ==
    /\ phase[c] = "active" /\ ~TaskDone(c)
    /\ now >= ListenersStarted(c) + WEBSOCKET_TIMEOUT

\* C23: a connection none of whose listener tasks has completed when
\* WEBSOCKET_TIMEOUT has elapsed since the listeners were started is closed
\* by the coordinator.
C23_CeilingClosesConnection ==
    \A c \in CeilingConns : CeilingReached(c) ~> (phase[c] = "closed")

\* C23 witness: the ceiling has closed the participant's connection, all of
\* whose listener tasks were running.
C23_Witness ==
    /\ now >= ListenersStarted("p1") + WEBSOCKET_TIMEOUT
    /\ phase["p1"] = "closed" /\ ~TaskDone("p1")
    /\ ws["p1"] = "wait" /\ pubsub["p1"] = "run" /\ hb["p1"] = "run"

\* C24: a connection whose validation fails never enters the Active phase:
\* no initial payload is sent to it or published and none of the listener
\* tasks is started for it.
C24_RefusedNeverActive ==
    hs_out.exc # NoError
        => /\ hs_out.phase # "active"
           /\ IsNone(hs_out.initial_payload) /\ IsNone(hs_out.published)
           /\ hs_out.tasks = {}

\* C24 witness: a handshake without user_id has been refused while the
\* moderator's connection was subscribed to the session's channel.
C24_Witness ==
    /\ hs_out.exc = MISSING_USER_ID_HEADER /\ hs_out.phase = "refused"
    /\ pubsub["m1"] = "run" /\ IsNone(hs_out.published)

\* The close code of an error kind: that of the four validation errors, 5000
\* for anything else.
CloseCodeOf(e) ==
    IF e \in {MISSING_USER_ID_HEADER, SESSION_NOT_FOUND, USER_FORBIDDEN,
              SESSION_CLOSED_FOR_NEW_PARTICIPANTS}
    THEN e.error_code ELSE ServerError.error_code

\* C25: every validation failure closes the socket with the structured close
\* code of its error kind: 4001 missing user_id, 4040 session not found, 4030
\* not the registered moderator, 4003 closed for new participants, 5000
\* otherwise.
C25_RefusalCarriesCloseCode ==
    hs_out.exc # NoError => hs_out.close_code = Some(CloseCodeOf(hs_out.exc))

\* A participant's handshake carrying a user_id has been made.
ParticipantHandshake == hs_in.role = Some(PARTICIPANT) /\ ~IsNone(hs_in.user_id)

\* C26: a participant-role connection (carrying a user_id) attempted while
\* the session's Quiz State is in a state other than WaitingToStart is refused
\* with SessionClosedForNewParticipants and does not become Active.
C26_ParticipantRefusedOnceStarted ==
    (/\ ParticipantHandshake /\ ~IsNone(hs_in.store)
     /\ get_quiz_data(Get(hs_in.store)).quiz_state # WAITING_TO_START)
        => /\ hs_out.exc = SESSION_CLOSED_FOR_NEW_PARTICIPANTS
           /\ hs_out.phase # "active" /\ hs_out.tasks = {}

\* C26 witness: a participant has been refused on a session whose quiz is on
\* its second question.
C26_Witness ==
    /\ ParticipantHandshake /\ ~IsNone(hs_in.store)
    /\ get_quiz_data(Get(hs_in.store)).quiz_state = ACTIVE
    /\ get_quiz_data(Get(hs_in.store)).current_question_number = 2
    /\ hs_out.exc = SESSION_CLOSED_FOR_NEW_PARTICIPANTS /\ hs_out.phase = "refused"

\* C27: a participant-role connection to a session whose Quiz State is not in
\* the Store is refused with SessionNotFound, and the Store still holds no
\* Quiz State for the session afterwards.
C27_ParticipantWithoutQuizState ==
    (ParticipantHandshake /\ IsNone(hs_in.store))
        => (hs_out.exc = SESSION_NOT_FOUND /\ IsNone(hs_out.store))

\* A moderator's handshake carrying a user_id has been made.
ModeratorHandshake == hs_in.role = Some(MODERATOR) /\ ~IsNone(hs_in.user_id)

\* C28: a moderator-role connection is admitted only if the session exists
\* and the user_id is that of the session's moderator; an unknown session is
\* refused with SessionNotFound, another user_id with Forbidden, and in both
\* cases the value the Store holds for the session is what it was.
C28_ModeratorAdmission ==
    ModeratorHandshake =>
        LET db_session == get_session(hs_in.session_id)
        IN  /\ hs_out.phase = "active" =>
                   (~IsNone(db_session) /\ Get(db_session).moderator_id = Get(hs_in.user_id))
            /\ IsNone(db_session) =>
                   (hs_out.exc = SESSION_NOT_FOUND /\ hs_out.store = hs_in.store)
            /\ (~IsNone(db_session) /\ Get(db_session).moderator_id # Get(hs_in.user_id)) =>
                   (hs_out.exc = USER_FORBIDDEN /\ hs_out.store = hs_in.store)

\* C28 witness: a user other than the moderator has asked for the moderator
\* role before the session has a Quiz State, and has been refused with
\* Forbidden, the Store still empty.
C28_Witness ==
    /\ ModeratorHandshake /\ hs_in.session_id = SessionId /\ hs_in.user_id = Some("u-p1")
    /\ IsNone(hs_in.store)
    /\ hs_out.exc = USER_FORBIDDEN /\ IsNone(hs_out.store) /\ IsNone(store)

\* C29: the registered moderator connecting to a session whose Quiz State is
\* already in the Store, in whatever state, is admitted and the stored Quiz
\* State is left as it was.
C29_ModeratorReusesQuizState ==
    (/\ ModeratorHandshake /\ hs_in.session_id = SessionId /\ hs_in.user_id = Some("u-mod")
     /\ ~IsNone(hs_in.store))
        => (hs_out.phase = "active" /\ hs_out.store = hs_in.store)

\* C30: a handshake without the user_id header is refused with
\* MissingIdentity (code 4001) whatever its role header, a missing or
\* unrecognised role included.
C30_MissingUserIdRefused ==
    IsNone(hs_in.user_id)
        => (hs_out.exc.kind = "MissingIdentity" /\ hs_out.exc.error_code = 4001)

\* Leave Quiz as a participant's client sends it.
LeaveQuizMsg == Cmd("participant-choice", "Leave Quiz")

\* C32: a participant's Leave Quiz leaves handle_message as the UserLeft
\* signal, neither as ServerError nor as a normal return, so that the
\* coordinator can recognise it.
C32_LeaveQuizRaisesUserLeft ==
    (h_in.connection_type = PARTICIPANT /\ h_in.message = LeaveQuizMsg)
        => h_out.exc = UserLeftException

\* C34: handle_message called with a message whose type has no registered
\* handler fails with InvalidMessageType (status 400, code 4002), for every
\* caller role and quiz state.
C34_UnregisteredTypeInvalid ==
    (h_in.message # NoMessage /\ h_in.message.type \notin RegisteredTypes)
        => (h_out.exc.kind = "InvalidMessageType" /\ h_out.exc.status_code = 400
            /\ h_out.exc.error_code = 4002)

\* C35: persist before publish: a payload is published for a handled message
\* only if the Quiz State the handler returned has been written to the Store;
\* none is published when the write failed.
C35_PersistBeforePublish ==
    ~IsNone(h_payload.published) => h_payload.stored

\* C40: a published payload has type "end" exactly when its Quiz State is
\* Ended and "update" in every other state, and in Ended the moderator menu
\* is End Quiz alone.
C40_PayloadTypeByState ==
    ~IsNone(h_payload.published) =>
        LET payload == Get(h_payload.published)
        IN  /\ payload.type = (IF payload.quiz_data.quiz_state = ENDED THEN "end" ELSE "update")
            /\ payload.quiz_data.quiz_state = ENDED => payload.moderator_menu = <<"End Quiz">>

\* C40 witness: the payload of a Quiz State ended on its second question has
\* been published.
C40_Witness ==
    /\ ~IsNone(h_payload.published)
    /\ Get(h_payload.published).quiz_data.quiz_state = ENDED
    /\ Get(h_payload.published).quiz_data.current_question_number = 2
    /\ Get(h_payload.published).type = "end"

\* C33: a participant's Leave Quiz terminates only its own connection: the
\* step in which its listener finishes handling the command ends that
\* listener, writes nothing to the Store, publishes nothing to any subscriber
\* and leaves every other connection in its phase.
C33_LeaveQuizOnlyOwnConnection ==
    [][\A c \in Participants :
          (HandledBy(c) /\ msg[c] = LeaveQuizMsg)
              => /\ ws'[c] = "done"
                 /\ store' = store /\ inbox' = inbox
                 /\ \A d \in Conns \ {c} : phase'[d] = phase[d]]_vars

\* C33 witness: the listener of participant p1 has ended on the one message
\* received so far (Leave Quiz leaves this state) and p1 is closed, while the
\* moderator stays connected and subscribed with nothing in its queue and the
\* Store is as the moderator's connection created it.
C33_Witness ==
    /\ sent = 1 /\ ws["p1"] = "done" /\ phase["p1"] = "closed"
    /\ phase["m1"] = "active" /\ pubsub["m1"] = "run" /\ inbox["m1"] = << >>
    /\ store = Some(StoreValue(InitialQuizData))

\* The broadcast listener of connection c forwards the notification at the
\* head of its queue to its client.
Forwards(c) ==
    /\ pubsub[c] = "run" /\ phase[c] = "active" /\ inbox[c] # << >>
    /\ inbox'[c] = Tail(inbox[c]) /\ pubsub'[c] # "cancelled"

\* C36: every payload the broadcast listener forwards is the projection of
\* the Quiz State re-read from the Store at that notification: its type is
\* the type of the payload of the Store's Quiz State, not that of the body
\* published, also when the Store changed between publish and delivery.
C36_ForwardedAgreesWithStore ==
    [][\A c \in Conns :
          (Forwards(c) /\ ~PayloadFails(Stored))
              => Head(inbox[c]) = get_payload(Stored, nq).type]_vars

\* C38: a timeout applied by the question timer changes only the state field
\* of the Quiz State that is in the Store at that moment, to QuestionTimedOut:
\* the question index and the current question in the Store stay as they are.
C38_TimeoutChangesOnlyState ==
    [][\A c \in Conns :
          FiredBy(c) =>
              /\ get_quiz_data(Get(store')).current_question_number
                     = Stored.current_question_number
              /\ get_quiz_data(Get(store')).current_question = Stored.current_question
              /\ get_quiz_data(Get(store')).quiz_state
                     \in {Stored.quiz_state, QUESTION_TIMEDOUT}]_vars

\* C39: an inbound client message whose handling fails leaves the Store as
\* it is and publishes nothing to any subscriber.
C39_FailedHandlingLeavesStore ==
    [][\A c \in Conns :
          (/\ HandledBy(c)
           /\ handle_message(msg[c], quiz_data[c], RoleOf(c), UserOf(c), nq, now).exc # NoError)
              => (store' = store /\ inbox' = inbox)]_vars

\* C39 witness: the listener of a moderator's connection has ended on a
\* message whose handling failed while the quiz was on a question; the
\* connection is still open.
C39_Witness ==
    \E c \in Conns :
        /\ RoleOf(c) = MODERATOR /\ ws[c] = "done" /\ phase[c] = "active"
        /\ ~IsNone(store) /\ Stored.quiz_state = ACTIVE /\ ~IsNone(Stored.current_question)

\* The notification of the quiz's end is published to the subscribed
\* broadcast listener of connection c and not yet delivered.
EndNotified(c) ==
    /\ pubsub[c] = "run"
    /\ inbox[c] # << >> /\ inbox[c][Len(inbox[c])] = "end"

\* C31: once End Quiz is persisted and published, every connection whose
\* broadcast listener is subscribed to the session eventually is closed
\* with none of its listener tasks running any more.
C31_EndClosesEverySubscriber ==
    \A c \in EndConns : EndNotified(c) ~> (phase[c] = "closed" /\ ~Running(c))

\* C37: while the participant's connection is active and the Quiz State its
\* client was last sent differs from the Store's, the heartbeat eventually
\* sends the projection of the Store's Quiz State (or the connection stops
\* being active), although every notification to it is lost.
C37_HeartbeatConverges ==
    (phase["p1"] = "active" /\ quiz_data["p1"] # Stored)
        ~> (quiz_data["p1"] = Stored \/ phase["p1"] # "active")

\* C37 witness: the moderator moved the quiz to its second question, the
\* notifications to the participant were lost, and the heartbeat has sent the
\* participant the Store's Quiz State.
C37_Witness ==
    /\ phase["p1"] = "active" /\ inbox["p1"] = << >>
    /\ Stored.quiz_state = ACTIVE /\ Stored.current_question_number = 2
    /\ quiz_data["p1"] = Stored

====
